---- MODULE Spec2Model ----
(***************************************************************************)
(* Model of software/source.c: the Nios II control software of the 4x4     *)
(* matrix-multiplier accelerator.  The packer (compose_bram_address,       *)
(* load_matrix_A_column, load_matrix_B_row) is modelled bit-exactly on     *)
(* 64-bit words; main is modelled as the sequence of register accesses it  *)
(* makes against a device whose status register changes on its own.        *)
(***************************************************************************)
EXTENDS Integers, Sequences, FiniteSets, TLC

VARIABLES
    pc,          \* position of main: Idle, LoadingA, LoadingB, Triggered, Polling, ReadingResults, Done
    col,         \* loop variable col of main
    row,         \* loop variable row of main
    status_reg,  \* local status_reg of main: the last value read from the status register
    result_val,  \* local result_val of main: the last value read from the C-data register
    regs,        \* last value written to each writable register
    trace,       \* the register accesses made so far, in program order (see MainPoll for the status reads)
    console,     \* lines printed so far
    dev_status,  \* value the device presents on the status register
    dev_C,       \* content of the device's C memory, by linear index
    polls,       \* number of status reads made by the poll loop (saturates at MaxPolls)
    dev_A,       \* content of the device's A memory, by composed address
    dev_B,       \* content of the device's B memory, by composed address
    dev_done_ever, \* TRUE once the device has presented a status value with bit 0 set
    h_matrix,    \* matrix argument handed to the loaders by a direct call
    h_call,      \* the last direct call: function, index, trace length and registers before it, return
    ncalls,      \* number of direct calls made
    composed     \* results of the direct calls of compose_bram_address, by argument pair

vars == <<pc, col, row, status_reg, result_val, regs, trace, console,
          dev_status, dev_C, polls, dev_A, dev_B, dev_done_ever,
          h_matrix, h_call, ncalls, composed>>

mainVars == <<pc, col, row, status_reg, result_val, dev_status, dev_C, polls,
              dev_A, dev_B, dev_done_ever>>
callVars == <<h_matrix, h_call, ncalls, composed>>

----------------------------------------------------------------------------
(* Bounds of the model *)

\* largest index a direct call passes to a loader or to compose_bram_address
MaxIdx == 5
\* number of direct loader calls in one behaviour
MaxCalls == 2
\* number of argument pairs of compose_bram_address remembered
MaxCompose == 2
\* largest value the device presents on the status register
MaxStatus == 3
\* status reads counted by the poll loop before the counter saturates
MaxPolls == 3
\* the device's C memories differ by a seed in 0..MaxCSeed
MaxCSeed == 1
\* number of times the load sequence is run in a row
MaxRuns == 2

----------------------------------------------------------------------------
(* Hardware parameters and memory map *)

DATA_WIDTH == 16
M == 4
K == 4
N == 4
N_BANKS == 4
MATRIX_DIM == 4
ELEMENT_INDEX_BITS == 2
ADDR_BITS == 4

ADDR_CONTROL_OFFSET == 0
ADDR_STATUS_OFFSET == 8
ADDR_C_ADDR_OFFSET == 16
ADDR_C_DATA_OFFSET == 24
ADDR_A_ADDR_OFFSET == 32
ADDR_A_DATA_OFFSET == 40
ADDR_B_ADDR_OFFSET == 48
ADDR_B_DATA_OFFSET == 56

\* registers main writes through 64-bit pointers
Regs64 == {ADDR_A_ADDR_OFFSET, ADDR_A_DATA_OFFSET, ADDR_B_ADDR_OFFSET, ADDR_B_DATA_OFFSET}
\* registers main writes through 32-bit pointers
Regs32 == {ADDR_CONTROL_OFFSET, ADDR_C_ADDR_OFFSET}
WritableRegs == Regs64 \cup Regs32

Mat(rows) == [r \in 0..(MATRIX_DIM-1) |-> [c \in 0..(MATRIX_DIM-1) |-> rows[r+1][c+1]]]

matrix_A == Mat(<< << 1,  2,  3,  4>>,
                   << 5,  6,  7,  8>>,
                   << 9, 10, 11, 12>>,
                   <<13, 14, 15, 16>> >>)

matrix_B == Mat(<< <<16, 15, 14, 13>>,
                   <<12, 11, 10,  9>>,
                   << 8,  7,  6,  5>>,
                   << 4,  3,  2,  1>> >>)

----------------------------------------------------------------------------
(* uint64_t as a vector of 64 bits, bit 0 the least significant *)

WORD_BITS == 64
BitIdx == 0..(WORD_BITS-1)

Zero64 == [i \in BitIdx |-> 0]
Ones64 == [i \in BitIdx |-> 1]

\* conversion of an unsigned value below 2^31 to uint64_t
U64(n) == [i \in BitIdx |-> IF i < 31 THEN (n \div (2^i)) % 2 ELSE 0]

\* a | b on uint64_t
Or64(a, b) == [i \in BitIdx |-> IF a[i] = 1 \/ b[i] = 1 THEN 1 ELSE 0]

\* a << k on uint64_t, k < 64: bits shifted past bit 63 are lost
Shl64(a, k) == [i \in BitIdx |-> IF i >= k THEN a[i-k] ELSE 0]

\* the unsigned value of bits off .. off+width-1 of w  (width <= 30)
RECURSIVE Field(_, _, _)
Field(w, off, width) ==
    IF width = 0 THEN 0
    ELSE w[off] + 2 * Field(w, off + 1, width - 1)

\* a | b on naturals
RECURSIVE BitOrNat(_, _)
BitOrNat(a, b) ==
    IF a = 0 THEN b
    ELSE IF b = 0 THEN a
    ELSE (IF a % 2 = 1 \/ b % 2 = 1 THEN 1 ELSE 0) + 2 * BitOrNat(a \div 2, b \div 2)

----------------------------------------------------------------------------
(* The packer *)

compose_bram_address_shift1(bank_idx, element_idx) ==
    Or64(Or64(Zero64, U64(element_idx)), U64(bank_idx * 2))

compose_bram_address(bank_idx, element_idx) ==
    Or64(Or64(Zero64, U64(element_idx)), U64(bank_idx * (2^ELEMENT_INDEX_BITS)))

A_index_invalid(col_idx) == col_idx >= MATRIX_DIM

A_addr_term_swapped(row_idx, col_idx) ==
    Shl64(compose_bram_address(col_idx, row_idx), row_idx * ADDR_BITS)

\* the term OR-ed into addr_buffer by one iteration of the loop of load_matrix_A_column
A_addr_term(row_idx, col_idx) ==
    Shl64(compose_bram_address(row_idx, col_idx), row_idx * ADDR_BITS)

A_data_term_byte(matrix, row_idx, col_idx) ==
    Shl64(U64(matrix[row_idx][col_idx]), row_idx * 8)

\* the term OR-ed into data_buffer by one iteration of the loop of load_matrix_A_column
A_data_term(matrix, row_idx, col_idx) ==
    Shl64(U64(matrix[row_idx][col_idx]), row_idx * 16)

\* the loop of load_matrix_A_column from row_idx on; b holds addr_buffer and data_buffer
RECURSIVE A_loop(_, _, _, _)
A_loop(matrix, col_idx, row_idx, b) ==
    IF row_idx < MATRIX_DIM
    THEN A_loop(matrix, col_idx, row_idx + 1,
                [addr |-> Or64(b.addr, A_addr_term(row_idx, col_idx)),
                 data |-> Or64(b.data, A_data_term(matrix, row_idx, col_idx))])
    ELSE b

B_index_invalid(row_idx) == row_idx >= MATRIX_DIM

B_addr_term_swapped(row_idx, col_idx) ==
    Shl64(compose_bram_address(row_idx, col_idx), col_idx * ADDR_BITS)

\* the term OR-ed into addr_buffer by one iteration of the loop of load_matrix_B_row
B_addr_term(row_idx, col_idx) ==
    Shl64(compose_bram_address(col_idx, row_idx), col_idx * ADDR_BITS)

B_data_term_byte(matrix, row_idx, col_idx) ==
    Shl64(U64(matrix[row_idx][col_idx]), col_idx * 8)

B_data_term_transposed(matrix, row_idx, col_idx) ==
    Shl64(U64(matrix[col_idx][row_idx]), col_idx * 16)

\* the term OR-ed into data_buffer by one iteration of the loop of load_matrix_B_row
B_data_term(matrix, row_idx, col_idx) ==
    Shl64(U64(matrix[row_idx][col_idx]), col_idx * 16)

\* the loop of load_matrix_B_row from col_idx on
RECURSIVE B_loop(_, _, _, _)
B_loop(matrix, row_idx, col_idx, b) ==
    IF col_idx < MATRIX_DIM
    THEN B_loop(matrix, row_idx, col_idx + 1,
                [addr |-> Or64(b.addr, B_addr_term(row_idx, col_idx)),
                 data |-> Or64(b.data, B_data_term(matrix, row_idx, col_idx))])
    ELSE b

\* register accesses as recorded in trace
WriteAcc(reg, val) == [op |-> "W", reg |-> reg, val |-> val]
ReadAcc(reg) == [op |-> "R", reg |-> reg]

\* what a call of a loader hands back to its caller: both loaders are void
VOID == "void"
load_matrix_A_column_return(col_idx) == IF A_index_invalid(col_idx) THEN VOID ELSE VOID
load_matrix_B_row_return(row_idx) == IF B_index_invalid(row_idx) THEN VOID ELSE VOID

\* a loader that ORs the column into what the registers hold
load_matrix_A_column_accumulate(addr, data, matrix, col_idx) ==
    IF A_index_invalid(col_idx)
    THEN /\ console' = Append(console, <<"Error: Column index out of bounds for Matrix A.", col_idx>>)
         /\ UNCHANGED <<regs, trace>>
    ELSE LET b == A_loop(matrix, col_idx, 0, [addr |-> regs[addr], data |-> regs[data]])
         IN /\ regs' = [regs EXCEPT ![addr] = b.addr, ![data] = b.data]
            /\ trace' = trace \o << WriteAcc(addr, b.addr), WriteAcc(data, b.data),
                                    ReadAcc(addr), ReadAcc(data) >>
            /\ console' = console \o << <<"Loading column of Matrix A into BRAM...", col_idx>>,
                                        <<" Bram address", addr>>,
                                        <<" Bram data", data>>,
                                        <<"Finish loading col of Matrix A into BRAM...", col_idx>>,
                                        <<"----", 0>> >>

load_matrix_A_column_noreturn(addr, data, matrix, col_idx) ==
    IF A_index_invalid(col_idx)
    THEN /\ console' = Append(console, <<"Error: Column index out of bounds for Matrix A.", col_idx>>)
         /\ regs' = [regs EXCEPT ![addr] = Zero64, ![data] = Zero64]
         /\ trace' = trace \o << WriteAcc(addr, Zero64), WriteAcc(data, Zero64) >>
    ELSE LET b == A_loop(matrix, col_idx, 0, [addr |-> Zero64, data |-> Zero64])
         IN /\ regs' = [regs EXCEPT ![addr] = b.addr, ![data] = b.data]
            /\ trace' = trace \o << WriteAcc(addr, b.addr), WriteAcc(data, b.data),
                                    ReadAcc(addr), ReadAcc(data) >>
            /\ console' = console \o << <<"Loading column of Matrix A into BRAM...", col_idx>>,
                                        <<" Bram address", addr>>,
                                        <<" Bram data", data>>,
                                        <<"Finish loading col of Matrix A into BRAM...", col_idx>>,
                                        <<"----", 0>> >>

load_matrix_A_column(addr, data, matrix, col_idx) ==
    IF A_index_invalid(col_idx)
    THEN /\ console' = Append(console, <<"Error: Column index out of bounds for Matrix A.", col_idx>>)
         /\ UNCHANGED <<regs, trace>>
    ELSE LET b == A_loop(matrix, col_idx, 0, [addr |-> Zero64, data |-> Zero64])
         IN /\ regs' = [regs EXCEPT ![addr] = b.addr, ![data] = b.data]
            /\ trace' = trace \o << WriteAcc(addr, b.addr), WriteAcc(data, b.data),
                                    ReadAcc(addr), ReadAcc(data) >>
            /\ console' = console \o << <<"Loading column of Matrix A into BRAM...", col_idx>>,
                                        <<" Bram address", addr>>,
                                        <<" Bram data", data>>,
                                        <<"Finish loading col of Matrix A into BRAM...", col_idx>>,
                                        <<"----", 0>> >>

\* a loader that writes the data word before the address word
load_matrix_B_row_datafirst(addr, data, matrix, row_idx) ==
    IF B_index_invalid(row_idx)
    THEN /\ console' = Append(console, <<"Error: Column index out of bounds for Matrix A.", row_idx>>)
         /\ UNCHANGED <<regs, trace>>
    ELSE LET b == B_loop(matrix, row_idx, 0, [addr |-> Zero64, data |-> Zero64])
         IN /\ regs' = [regs EXCEPT ![addr] = b.addr, ![data] = b.data]
            /\ trace' = trace \o << WriteAcc(data, b.data), WriteAcc(addr, b.addr),
                                    ReadAcc(addr), ReadAcc(data) >>
            /\ console' = console \o << <<"Loading row of Matrix B into BRAM...", row_idx>>,
                                        <<" Bram address", addr>>,
                                        <<" Bram data", data>>,
                                        <<" Finish loading row of Matrix B into BRAM...", row_idx>>,
                                        <<"----", 0>> >>

load_matrix_B_row(addr, data, matrix, row_idx) ==
    IF B_index_invalid(row_idx)
    THEN /\ console' = Append(console, <<"Error: Column index out of bounds for Matrix A.", row_idx>>)
         /\ UNCHANGED <<regs, trace>>
    ELSE LET b == B_loop(matrix, row_idx, 0, [addr |-> Zero64, data |-> Zero64])
         IN /\ regs' = [regs EXCEPT ![addr] = b.addr, ![data] = b.data]
            /\ trace' = trace \o << WriteAcc(addr, b.addr), WriteAcc(data, b.data),
                                    ReadAcc(addr), ReadAcc(data) >>
            /\ console' = console \o << <<"Loading row of Matrix B into BRAM...", row_idx>>,
                                        <<" Bram address", addr>>,
                                        <<" Bram data", data>>,
                                        <<" Finish loading row of Matrix B into BRAM...", row_idx>>,
                                        <<"----", 0>> >>

----------------------------------------------------------------------------
(* main *)

\* conversion of an int argument to a uint8_t parameter
ToUint8(i) == i % 256
\* conversion of a value to alt_u32; every value the model stores is below 2^31
ToU32(v) == v

\* a start command with bit 0 only
START_CMD_bit0 == 2^0

START_CMD == 3

ReadValAcc(reg, val) == [op |-> "R", reg |-> reg, val |-> val]

InitWords == {Zero64, Ones64}
InitRegs(w) == [r \in WritableRegs |-> IF r \in Regs64 THEN w ELSE 0]
NoCall(r) == [fn |-> "none", idx |-> 0, first |-> 0, pre |-> r, ret |-> VOID]
CMemory(seed) == [i \in 0..(M*N-1) |-> seed * (i + 1)]

\* The device, as the specification describes it: a write of a data register
\* stores the 4 elements of the data word, the element of slot s at the 4-bit
\* address in field s of the address register; the start command multiplies.
DevAddrs == 0..(M*N-1)
DevMemZero == [a \in DevAddrs |-> 0]
DevStore(mem, addr_word, data_word) ==
    [a \in DevAddrs |->
        IF \E s \in 0..(N_BANKS-1) : Field(addr_word, s * ADDR_BITS, ADDR_BITS) = a
        THEN LET s == CHOOSE t \in 0..(N_BANKS-1) :
                          /\ Field(addr_word, t * ADDR_BITS, ADDR_BITS) = a
                          /\ \A u \in (t+1)..(N_BANKS-1) : Field(addr_word, u * ADDR_BITS, ADDR_BITS) # a
             IN Field(data_word, s * DATA_WIDTH, DATA_WIDTH)
        ELSE mem[a]]

\* A[i][k] is at bank i, element k of the A memory; B[k][j] at bank j, element k of the B memory
RECURSIVE DevDot(_, _, _, _, _)
DevDot(a, b, i, j, k) ==
    IF k = K THEN 0
    ELSE a[k + i * (2^ELEMENT_INDEX_BITS)] * b[k + j * (2^ELEMENT_INDEX_BITS)] + DevDot(a, b, i, j, k + 1)
DevMultiply(a, b) == [x \in DevAddrs |-> DevDot(a, b, x \div N, x % N, 0)]

\* an A loop that runs one column too far
MainLoopA_long(c) == c <= K

MainLoopA(c) == c < K

MainLoopB_short(r) == r < K - 1

MainLoopB(r) == r < K

\* an exit test that looks at bit 1 instead of bit 0
PollDone_bit1(s) == (s \div 2) % 2 = 1

PollDone_nonzero(s) == s # 0

\* the exit test of the poll loop: status_reg & 0x1
PollDone(s) == s % 2 = 1

c_bram_addr_colmajor(r, c) == c * N + r

c_bram_addr(r, c) == r * N + c

MainStart ==
    /\ pc = "Idle"
    /\ pc' = "LoadingA"
    /\ col' = 0
    /\ console' = console \o << <<"Nios II 4x4 Matrix Multiplier Control Software Starting...", 0>>,
                                <<"----", 0>>, <<"Loading matrix A...", 0>> >>
    /\ UNCHANGED <<row, status_reg, result_val, regs, trace, dev_status, dev_C, polls>>
    /\ UNCHANGED callVars
    /\ UNCHANGED <<dev_A, dev_B, dev_done_ever>>

MainLoadA ==
    /\ pc = "LoadingA"
    /\ MainLoopA(col)
    /\ load_matrix_A_column(ADDR_A_ADDR_OFFSET, ADDR_A_DATA_OFFSET, matrix_A, ToUint8(col))
    /\ col' = col + 1
    /\ dev_A' = IF A_index_invalid(ToUint8(col)) THEN dev_A
                ELSE DevStore(dev_A, regs'[ADDR_A_ADDR_OFFSET], regs'[ADDR_A_DATA_OFFSET])
    /\ UNCHANGED <<pc, row, status_reg, result_val, dev_status, dev_C, polls>>
    /\ UNCHANGED <<dev_B, dev_done_ever>>
    /\ UNCHANGED callVars

MainLoadADone ==
    /\ pc = "LoadingA"
    /\ ~MainLoopA(col)
    /\ pc' = "LoadingB"
    /\ row' = 0
    /\ console' = console \o << <<"----", 0>>, <<"Loading matrix B...", 0>> >>
    /\ UNCHANGED <<col, status_reg, result_val, regs, trace, dev_status, dev_C, polls>>
    /\ UNCHANGED callVars
    /\ UNCHANGED <<dev_A, dev_B, dev_done_ever>>

MainLoadB ==
    /\ pc = "LoadingB"
    /\ MainLoopB(row)
    /\ load_matrix_B_row(ADDR_B_ADDR_OFFSET, ADDR_B_DATA_OFFSET, matrix_B, ToUint8(row))
    /\ row' = row + 1
    /\ dev_B' = IF B_index_invalid(ToUint8(row)) THEN dev_B
                ELSE DevStore(dev_B, regs'[ADDR_B_ADDR_OFFSET], regs'[ADDR_B_DATA_OFFSET])
    /\ UNCHANGED <<pc, col, status_reg, result_val, dev_status, dev_C, polls>>
    /\ UNCHANGED <<dev_A, dev_done_ever>>
    /\ UNCHANGED callVars

\* the write of the start command that follows the B loop
MainTrigger ==
    /\ pc = "LoadingB"
    /\ ~MainLoopB(row)
    /\ pc' = "Triggered"
    /\ regs' = [regs EXCEPT ![ADDR_CONTROL_OFFSET] = ToU32(START_CMD)]
    /\ trace' = Append(trace, WriteAcc(ADDR_CONTROL_OFFSET, ToU32(START_CMD)))
    /\ console' = console \o << <<"Starting multiplication...", 0>>,
                                <<"Waiting for multiplication to finish...", 0>> >>
    /\ dev_C' = DevMultiply(dev_A, dev_B)
    /\ UNCHANGED <<col, row, status_reg, result_val, dev_status, polls>>
    /\ UNCHANGED <<dev_A, dev_B, dev_done_ever>>
    /\ UNCHANGED callVars

\* one iteration of the do-while poll loop: the read and the exit test.
\* The loop has no limit; polls and trace record the first MaxPolls reads and
\* the read that ends the loop, later reads of a not-done value change nothing.
MainPoll ==
    /\ pc \in {"Triggered", "Polling"}
    /\ polls' = IF polls < MaxPolls THEN polls + 1 ELSE polls
    /\ status_reg' = ToU32(dev_status)
    /\ trace' = IF polls < MaxPolls \/ PollDone(status_reg')
                THEN Append(trace, ReadValAcc(ADDR_STATUS_OFFSET, ToU32(dev_status)))
                ELSE trace
    /\ IF PollDone(status_reg')
       THEN /\ pc' = "ReadingResults"
            /\ row' = 0
            /\ col' = 0
            /\ console' = console \o << <<"Multiplication finished!", 0>>,
                                        <<"Reading results from C matrix BRAM...", 0>> >>
       ELSE /\ pc' = "Polling"
            /\ UNCHANGED <<row, col, console>>
    /\ UNCHANGED <<result_val, regs, dev_status, dev_C>>
    /\ UNCHANGED callVars
    /\ UNCHANGED <<dev_A, dev_B, dev_done_ever>>

\* one iteration of the inner loop of the result sweep
MainReadResult ==
    /\ pc = "ReadingResults"
    /\ row < M
    /\ col < N
    /\ LET a == ToU32(c_bram_addr(row, col))
           v == dev_C[a]
       IN /\ regs' = [regs EXCEPT ![ADDR_C_ADDR_OFFSET] = a]
          /\ trace' = trace \o << WriteAcc(ADDR_C_ADDR_OFFSET, a), ReadValAcc(ADDR_C_DATA_OFFSET, v) >>
          /\ result_val' = v
          /\ console' = Append(console, <<"C", row, col, v>>)
    /\ col' = col + 1
    /\ UNCHANGED <<pc, row, status_reg, dev_status, dev_C, polls>>
    /\ UNCHANGED callVars
    /\ UNCHANGED <<dev_A, dev_B, dev_done_ever>>

\* the end of the inner loop: row++, and col = 0 when the outer loop goes on
MainNextRow ==
    /\ pc = "ReadingResults"
    /\ row < M
    /\ ~(col < N)
    /\ row' = row + 1
    /\ col' = IF row + 1 < M THEN 0 ELSE col
    /\ UNCHANGED <<pc, status_reg, result_val, regs, trace, console, dev_status, dev_C, polls>>
    /\ UNCHANGED callVars
    /\ UNCHANGED <<dev_A, dev_B, dev_done_ever>>

MainFinish ==
    /\ pc = "ReadingResults"
    /\ ~(row < M)
    /\ pc' = "Done"
    /\ console' = Append(console, <<"Nios II application finished.", 0>>)
    /\ UNCHANGED <<col, row, status_reg, result_val, regs, trace, dev_status, dev_C, polls>>
    /\ UNCHANGED callVars
    /\ UNCHANGED <<dev_A, dev_B, dev_done_ever>>

\* the device changes the value of its status register
DevStatus ==
    /\ pc # "Done"
    /\ \E s \in 0..MaxStatus :
          /\ s # dev_status
          /\ dev_status' = s
          /\ dev_done_ever' = (dev_done_ever \/ s % 2 = 1)
    /\ UNCHANGED <<pc, col, row, status_reg, result_val, regs, trace, console, dev_C, polls>>
    /\ UNCHANGED <<dev_A, dev_B>>
    /\ UNCHANGED callVars

Init ==
    /\ pc = "Idle"
    /\ col = 0
    /\ row = 0
    /\ status_reg = 0
    /\ result_val = 0
    /\ \E w \in InitWords : regs = InitRegs(w) /\ h_call = NoCall(InitRegs(w))
    /\ trace = << >>
    /\ console = << >>
    /\ dev_status \in 0..MaxStatus
    /\ dev_done_ever = (dev_status % 2 = 1)
    /\ \E seed \in 0..MaxCSeed : dev_C = CMemory(seed)
    /\ dev_A = DevMemZero
    /\ dev_B = DevMemZero
    /\ polls = 0
    /\ h_matrix = matrix_A
    /\ ncalls = 0
    /\ composed = << >>

Next ==
    \/ MainStart
    \/ MainLoadA
    \/ MainLoadADone
    \/ MainLoadB
    \/ MainTrigger
    \/ MainPoll
    \/ MainReadResult
    \/ MainNextRow
    \/ MainFinish
    \/ DevStatus

Spec == Init /\ [][Next]_vars

\* main is a sequential program that keeps running: a step of main that is
\* possible is eventually taken.  The device is under no obligation.
MainStep ==
    \/ MainStart
    \/ MainLoadA
    \/ MainLoadADone
    \/ MainLoadB
    \/ MainTrigger
    \/ MainPoll
    \/ MainReadResult
    \/ MainNextRow
    \/ MainFinish

SpecLive == Init /\ [][Next]_vars /\ WF_vars(MainStep)

----------------------------------------------------------------------------
(* Direct calls of the loaders, with any matrix of TestMatrices and any index up to MaxIdx *)

MaxMatrix == [r \in 0..(MATRIX_DIM-1) |-> [c \in 0..(MATRIX_DIM-1) |-> 65535]]
CodedMatrix == [r \in 0..(MATRIX_DIM-1) |-> [c \in 0..(MATRIX_DIM-1) |-> 4369 * (r * MATRIX_DIM + c)]]
TestMatrices == {matrix_A, matrix_B, MaxMatrix, CodedMatrix}

CallLoadA(i) ==
    /\ ncalls < MaxCalls
    /\ load_matrix_A_column(ADDR_A_ADDR_OFFSET, ADDR_A_DATA_OFFSET, h_matrix, ToUint8(i))
    /\ h_call' = [fn |-> "A", idx |-> ToUint8(i), first |-> Len(trace), pre |-> regs,
                  ret |-> load_matrix_A_column_return(ToUint8(i))]
    /\ ncalls' = ncalls + 1
    /\ UNCHANGED <<h_matrix, composed>>
    /\ UNCHANGED mainVars

CallLoadB(i) ==
    /\ ncalls < MaxCalls
    /\ load_matrix_B_row(ADDR_B_ADDR_OFFSET, ADDR_B_DATA_OFFSET, h_matrix, ToUint8(i))
    /\ h_call' = [fn |-> "B", idx |-> ToUint8(i), first |-> Len(trace), pre |-> regs,
                  ret |-> load_matrix_B_row_return(ToUint8(i))]
    /\ ncalls' = ncalls + 1
    /\ UNCHANGED <<h_matrix, composed>>
    /\ UNCHANGED mainVars

InitLoad ==
    /\ pc = "Idle"
    /\ col = 0
    /\ row = 0
    /\ status_reg = 0
    /\ result_val = 0
    /\ \E w \in InitWords : regs = InitRegs(w) /\ h_call = NoCall(InitRegs(w))
    /\ trace = << >>
    /\ console = << >>
    /\ dev_status = 0
    /\ dev_done_ever = FALSE
    /\ dev_C = CMemory(0)
    /\ dev_A = DevMemZero
    /\ dev_B = DevMemZero
    /\ polls = 0
    /\ h_matrix \in TestMatrices
    /\ ncalls = 0
    /\ composed = << >>

NextLoad ==
    \/ \E i \in 0..MaxIdx : CallLoadA(i)
    \/ \E i \in 0..MaxIdx : CallLoadB(i)

SpecLoad == InitLoad /\ [][NextLoad]_vars

----------------------------------------------------------------------------
(* The load sequence of main (the A loop, then the B loop), run MaxRuns times
   in a row on the matrix h_matrix; ncalls counts the loader calls made *)

LoadCalls == K + K
SeqPos == ncalls % LoadCalls

RunLoadA ==
    /\ ncalls < MaxRuns * LoadCalls
    /\ MainLoopA(SeqPos)
    /\ load_matrix_A_column(ADDR_A_ADDR_OFFSET, ADDR_A_DATA_OFFSET, h_matrix, ToUint8(SeqPos))
    /\ h_call' = [fn |-> "A", idx |-> ToUint8(SeqPos), first |-> Len(trace), pre |-> regs,
                  ret |-> load_matrix_A_column_return(ToUint8(SeqPos))]
    /\ ncalls' = ncalls + 1
    /\ UNCHANGED <<h_matrix, composed>>
    /\ UNCHANGED mainVars

RunLoadB ==
    /\ ncalls < MaxRuns * LoadCalls
    /\ ~MainLoopA(SeqPos)
    /\ MainLoopB(SeqPos - K)
    /\ load_matrix_B_row(ADDR_B_ADDR_OFFSET, ADDR_B_DATA_OFFSET, h_matrix, ToUint8(SeqPos - K))
    /\ h_call' = [fn |-> "B", idx |-> ToUint8(SeqPos - K), first |-> Len(trace), pre |-> regs,
                  ret |-> load_matrix_B_row_return(ToUint8(SeqPos - K))]
    /\ ncalls' = ncalls + 1
    /\ UNCHANGED <<h_matrix, composed>>
    /\ UNCHANGED mainVars

\* between two runs something else than the loaders may leave any content in the operand registers
RegsDisturbed ==
    /\ ncalls > 0
    /\ ncalls < MaxRuns * LoadCalls
    /\ SeqPos = 0
    /\ h_call.fn # "disturbed"
    /\ \E w \in InitWords : regs' = [r \in WritableRegs |-> IF r \in Regs64 THEN w ELSE regs[r]]
    /\ h_call' = [h_call EXCEPT !.fn = "disturbed"]
    /\ UNCHANGED <<trace, console, h_matrix, ncalls, composed>>
    /\ UNCHANGED mainVars

NextReload ==
    \/ RunLoadA
    \/ RunLoadB
    \/ RegsDisturbed

SpecReload == InitLoad /\ [][NextReload]_vars

----------------------------------------------------------------------------
(* Direct calls of compose_bram_address *)

CallCompose(b, e) ==
    /\ Cardinality(DOMAIN composed) < MaxCompose
    /\ <<b, e>> \notin DOMAIN composed
    /\ composed' = [p \in (DOMAIN composed) \cup {<<b, e>>} |->
                      IF p = <<b, e>> THEN compose_bram_address(ToUint8(b), ToUint8(e))
                      ELSE composed[p]]
    /\ UNCHANGED <<h_matrix, h_call, ncalls, regs, trace, console>>
    /\ UNCHANGED mainVars

InitCompose ==
    /\ pc = "Idle"
    /\ col = 0
    /\ row = 0
    /\ status_reg = 0
    /\ result_val = 0
    /\ regs = InitRegs(Zero64)
    /\ h_call = NoCall(InitRegs(Zero64))
    /\ trace = << >>
    /\ console = << >>
    /\ dev_status = 0
    /\ dev_done_ever = FALSE
    /\ dev_C = CMemory(0)
    /\ dev_A = DevMemZero
    /\ dev_B = DevMemZero
    /\ polls = 0
    /\ h_matrix = matrix_A
    /\ ncalls = 0
    /\ composed = << >>

NextCompose == \E b \in 0..MaxIdx, e \in 0..MaxIdx : CallCompose(b, e)

SpecCompose == InitCompose /\ [][NextCompose]_vars

----------------------------------------------------------------------------
(* Properties of main *)

IsWrite(e, reg) == e.op = "W" /\ e.reg = reg
IsRead(e, reg) == e.op = "R" /\ e.reg = reg
IsCAccess(e) == IsWrite(e, ADDR_C_ADDR_OFFSET) \/ IsRead(e, ADDR_C_DATA_OFFSET)
IsDoneRead(e) == IsRead(e, ADDR_STATUS_OFFSET) /\ e.val % 2 = 1
TraceIdx == 1..Len(trace)

\* C1: no write of the C-address register and no read of the C-data register
\* comes before a status read that returned a value with bit 0 set, and once
\* the poll loop is left the last status read is such a read, whatever the
\* other bits of the value are.
C1_ResultAccessAfterDone ==
    /\ \A j \in TraceIdx :
          IsCAccess(trace[j]) => \E i \in 1..(j-1) : IsDoneRead(trace[i])
    /\ pc \in {"ReadingResults", "Done"} =>
          /\ status_reg % 2 = 1
          /\ \E i \in TraceIdx :
                /\ IsDoneRead(trace[i])
                /\ \A k \in (i+1)..Len(trace) : ~IsRead(trace[k], ADDR_STATUS_OFFSET)

\* a run that polled a not-done value with another bit set, then left on the value 3
C1_Witness ==
    /\ pc = "ReadingResults"
    /\ status_reg = 3
    /\ \E i \in TraceIdx : IsRead(trace[i], ADDR_STATUS_OFFSET) /\ trace[i].val = 2
    /\ \E j \in TraceIdx : IsRead(trace[j], ADDR_C_DATA_OFFSET)

\* the column (A) or row (B) an address word was packed for: the element index of slot 0
IndexOfAddrWord(w) == Field(w, 0, ELEMENT_INDEX_BITS)

PairBefore(i, addrReg, dataReg, k) ==
    \E j \in 1..(i-2) :
        /\ IsWrite(trace[j], addrReg)
        /\ IndexOfAddrWord(trace[j].val) = k
        /\ IsWrite(trace[j+1], dataReg)

\* C2: when the start command is written to the control register, the write
\* pairs of all 4 columns of A and of all 4 rows of B have been made (each
\* operand register written exactly 4 times), and no operand register is
\* written after the start command.
C2_TriggerAfterLoads ==
    \A i \in TraceIdx :
        IsWrite(trace[i], ADDR_CONTROL_OFFSET) =>
            /\ \A r \in Regs64 : Cardinality({j \in 1..(i-1) : IsWrite(trace[j], r)}) = MATRIX_DIM
            /\ \A k \in 0..(K-1) : PairBefore(i, ADDR_A_ADDR_OFFSET, ADDR_A_DATA_OFFSET, k)
            /\ \A k \in 0..(K-1) : PairBefore(i, ADDR_B_ADDR_OFFSET, ADDR_B_DATA_OFFSET, k)
            /\ \A j \in (i+1)..Len(trace) : \A r \in Regs64 : ~IsWrite(trace[j], r)

\* a finished run: the start command was written and the whole result sweep followed it
C2_Witness ==
    /\ pc = "Done"
    /\ \E i \in TraceIdx : IsWrite(trace[i], ADDR_CONTROL_OFFSET) /\ trace[i].val = START_CMD /\ i < Len(trace)

CAccesses == SelectSeq(trace, IsCAccess)

\* C3: the accesses of the C registers are, in order, write index 0, read,
\* write index 1, read, ..., write index 15, read: 16 round trips at the end
\* of the run, the index written in the iteration (row, col) being row*4+col,
\* and every C-data read comes right after the write of its index.
C3_RowMajorSweep ==
    /\ \A i \in 1..Len(CAccesses) :
          IF i % 2 = 1
          THEN IsWrite(CAccesses[i], ADDR_C_ADDR_OFFSET) /\ CAccesses[i].val = (i - 1) \div 2
          ELSE IsRead(CAccesses[i], ADDR_C_DATA_OFFSET)
    /\ Len(CAccesses) <= 2 * M * N
    /\ \A j \in TraceIdx :
          IsRead(trace[j], ADDR_C_DATA_OFFSET) => j > 1 /\ IsWrite(trace[j-1], ADDR_C_ADDR_OFFSET)
    /\ (pc = "ReadingResults" /\ row < M /\ col < N) => Len(CAccesses) = 2 * (row * 4 + col)
    /\ pc = "Done" => Len(CAccesses) = 2 * M * N
    /\ pc \notin {"ReadingResults", "Done"} => Len(CAccesses) = 0

\* the sweep is complete and its last round trip was for index 15
C3_Witness ==
    /\ pc = "Done"
    /\ Len(CAccesses) = 32
    /\ regs[ADDR_C_ADDR_OFFSET] = 15

----------------------------------------------------------------------------
(* Properties of the packer, on direct calls *)

Slots == 0..(N_BANKS-1)
ValidCall(fn) == h_call.fn = fn /\ h_call.idx < MATRIX_DIM
\* the accesses made by the last direct call
CallAcc(n) == trace[h_call.first + n]
CallMade(addrReg, dataReg) ==
    /\ Len(trace) = h_call.first + 4
    /\ IsWrite(CallAcc(1), addrReg)
    /\ IsWrite(CallAcc(2), dataReg)

\* C4: the address word written by load_matrix_A_column for column c has in
\* the 4-bit field of slot r the value c | (r << 2), and no bit above bit 15.
C4_AddrWordA ==
    ValidCall("A") =>
        /\ CallMade(ADDR_A_ADDR_OFFSET, ADDR_A_DATA_OFFSET)
        /\ \A r \in Slots :
              Field(CallAcc(1).val, r * 4, 4) = BitOrNat(h_call.idx, r * 4)
        /\ \A i \in 16..(WORD_BITS-1) : CallAcc(1).val[i] = 0

\* column 3 was loaded: slot 3 holds the address 15, slot 0 the address 3
C4_Witness ==
    /\ ValidCall("A")
    /\ h_call.idx = 3
    /\ Field(regs[ADDR_A_ADDR_OFFSET], 12, 4) = 15
    /\ Field(regs[ADDR_A_ADDR_OFFSET], 0, 4) = 3

\* C5: the address word written by load_matrix_B_row for row r has in the
\* 4-bit field of slot c the value r | (c << 2): bank = column, element = row,
\* where operand A has bank = row, element = column.
C5_AddrWordB ==
    ValidCall("B") =>
        /\ CallMade(ADDR_B_ADDR_OFFSET, ADDR_B_DATA_OFFSET)
        /\ \A c \in Slots :
              /\ Field(CallAcc(1).val, c * 4, 4) = BitOrNat(h_call.idx, c * 4)
              /\ Field(CallAcc(1).val, c * 4, ELEMENT_INDEX_BITS) = h_call.idx
              /\ Field(CallAcc(1).val, c * 4 + ELEMENT_INDEX_BITS, 2) = c

\* row 1 was loaded: slot 2 holds bank 2, element 1
C5_Witness ==
    /\ ValidCall("B")
    /\ h_call.idx = 1
    /\ Field(regs[ADDR_B_ADDR_OFFSET], 8, 4) = 9

\* C6: the 16-bit field at bit offset row*16 of the data word written by
\* load_matrix_A_column for column c is matrix[row][c].
C6_DataWordA ==
    ValidCall("A") =>
        /\ CallMade(ADDR_A_ADDR_OFFSET, ADDR_A_DATA_OFFSET)
        /\ \A r \in Slots :
              Field(CallAcc(2).val, r * 16, 16) = h_matrix[r][h_call.idx]

\* column 3 of the coded matrix was loaded: the top field is 0xFFFF, the lowest 0x3333
C6_Witness ==
    /\ ValidCall("A")
    /\ h_call.idx = 3
    /\ h_matrix = CodedMatrix
    /\ Field(regs[ADDR_A_DATA_OFFSET], 48, 16) = 65535
    /\ Field(regs[ADDR_A_DATA_OFFSET], 0, 16) = 13107

\* C7: the 16-bit field at bit offset col*16 of the data word written by
\* load_matrix_B_row for row r is matrix[r][col].
C7_DataWordB ==
    ValidCall("B") =>
        /\ CallMade(ADDR_B_ADDR_OFFSET, ADDR_B_DATA_OFFSET)
        /\ \A c \in Slots :
              Field(CallAcc(2).val, c * 16, 16) = h_matrix[h_call.idx][c]

\* row 2 of the sample matrix B was loaded: 8, 7, 6, 5
C7_Witness ==
    /\ ValidCall("B")
    /\ h_call.idx = 2
    /\ h_matrix = matrix_B
    /\ Field(regs[ADDR_B_DATA_OFFSET], 0, 16) = 8
    /\ Field(regs[ADDR_B_DATA_OFFSET], 48, 16) = 5

InRangePairs == {p \in DOMAIN composed : p[1] < N_BANKS /\ p[2] < MATRIX_DIM}

\* C8: for bank_index and element_index in 0..3 compose_bram_address returns
\* element_index | (bank_index << 2), a value in 0..15, and two distinct
\* argument pairs never give the same value.
C8_ComposeInjective ==
    /\ \A p \in InRangePairs :
          /\ Field(composed[p], 0, 30) = BitOrNat(p[2], p[1] * 4)
          /\ Field(composed[p], 0, 30) \in 0..15
          /\ \A i \in 30..(WORD_BITS-1) : composed[p][i] = 0
    /\ \A p \in InRangePairs, q \in InRangePairs :
          p # q => composed[p] # composed[q]

\* two calls in range were made, one of them with the largest arguments
C8_Witness ==
    /\ Cardinality(InRangePairs) >= 2
    /\ <<3, 3>> \in InRangePairs
    /\ Field(composed[<<3, 3>>], 0, 30) = 15

InvalidCall == h_call.fn \in {"A", "B"} /\ h_call.idx >= MATRIX_DIM

\* C9: a call of a loader with an index >= 4 makes no register access: every
\* register keeps the value it had before the call.
C9_InvalidIndexWritesNothing ==
    InvalidCall =>
        /\ regs = h_call.pre
        /\ Len(trace) = h_call.first

\* column 4 was asked for after a successful load, whose values the registers keep
C9_Witness ==
    /\ h_call.fn = "A"
    /\ h_call.idx = 4
    /\ ncalls = 2
    /\ h_matrix = matrix_A
    /\ Field(regs[ADDR_A_DATA_OFFSET], 0, 16) = 2
    /\ Len(trace) = 4

\* C10: a call of load_matrix_A_column with column_index >= 4 hands its
\* caller an outcome that differs from the outcome of every successful load.
C10_InvalidIndexReported ==
    (h_call.fn = "A" /\ h_call.idx >= MATRIX_DIM) =>
        \A c \in 0..(MATRIX_DIM-1) : h_call.ret # load_matrix_A_column_return(c)

----------------------------------------------------------------------------
(* Properties of main: trigger, poll, load order *)

ControlAccesses == {i \in TraceIdx : trace[i].reg = ADDR_CONTROL_OFFSET}

\* C11: the control register is accessed by one write only, of the value 0x3
\* (bit 0 and bit 1), made when the B loop ends, and the access that follows
\* it is the first read of the status register: nothing is waited for between
\* the start command and the poll.
C11_SingleStartCommand ==
    /\ \A i \in ControlAccesses :
          /\ trace[i].op = "W"
          /\ trace[i].val = 3
          /\ trace[i].val % 2 = 1 /\ (trace[i].val \div 2) % 2 = 1
          /\ i < Len(trace) => IsRead(trace[i+1], ADDR_STATUS_OFFSET)
    /\ Cardinality(ControlAccesses) =
          IF pc \in {"Triggered", "Polling", "ReadingResults", "Done"} THEN 1 ELSE 0
    /\ pc = "Triggered" => (Len(trace) \in ControlAccesses /\ polls = 0)

\* the run is over: the start command was written once and the first poll followed it
C11_Witness ==
    /\ pc = "Done"
    /\ regs[ADDR_CONTROL_OFFSET] = 3
    /\ \E i \in ControlAccesses : IsRead(trace[i+1], ADDR_STATUS_OFFSET)

\* the accesses of main other than the reads of the status register
NonPollAccesses == SelectSeq(trace, LAMBDA e : ~IsRead(e, ADDR_STATUS_OFFSET))
\* 8 loader calls of 4 accesses, the start command, 16 round trips of 2 accesses
MainAccessCount == (K + K) * 4 + 1 + 2 * M * N
\* from some point on the device presents bit 0 set for as long as main has not left the poll loop
DeviceCompletes == <>[](pc \notin {"ReadingResults", "Done"} => dev_status % 2 = 1)

\* C12: if the device eventually presents a status value with bit 0 set and
\* keeps it until it is read, main eventually reaches Done with all 16 result
\* reads made; outside the poll loop main makes a fixed number of accesses.
C12_EventuallyDone ==
    /\ [](Len(NonPollAccesses) <= MainAccessCount)
    /\ [](pc = "Done" => Len(NonPollAccesses) = MainAccessCount)
    /\ (DeviceCompletes => <>(pc = "Done" /\ Len(CAccesses) = 2 * M * N))

\* a finished run in which the device was first read as not done
C12_Witness ==
    /\ pc = "Done"
    /\ Len(CAccesses) = 32
    /\ polls >= 2
    /\ \E i \in TraceIdx : IsRead(trace[i], ADDR_STATUS_OFFSET) /\ trace[i].val % 2 = 0

\* C13: as long as the device has not set bit 0 of the status register, main
\* has not left the poll loop, has accessed no C register and can read the
\* status register again however many times it has read it; if the device
\* never sets the bit, main is in Polling from some point on, forever, and
\* never reaches Done.
C13_PollsForever ==
    /\ [](~dev_done_ever => (pc \notin {"ReadingResults", "Done"} /\ Len(CAccesses) = 0))
    /\ [](pc \in {"Triggered", "Polling"} => ENABLED MainPoll)
    /\ ([](dev_status % 2 = 0) => <>[](pc = "Polling"))

\* main has read the status register MaxPolls times, always not done, and is still polling
C13_Witness ==
    /\ ~dev_done_ever
    /\ pc = "Polling"
    /\ polls = MaxPolls
    /\ \A i \in TraceIdx : IsRead(trace[i], ADDR_STATUS_OFFSET) => trace[i].val % 2 = 0

----------------------------------------------------------------------------
(* Properties of the packer: layout of the packed words *)

\* the terms the last direct call OR-ed into its buffers for slot s
CallAddrTerm(s) ==
    IF h_call.fn = "A" THEN A_addr_term(s, h_call.idx) ELSE B_addr_term(h_call.idx, s)
CallDataTerm(s) ==
    IF h_call.fn = "A" THEN A_data_term(h_matrix, s, h_call.idx) ELSE B_data_term(h_matrix, h_call.idx, s)
\* the element the last direct call packed into slot s
CallElement(s) ==
    IF h_call.fn = "A" THEN h_matrix[s][h_call.idx] ELSE h_matrix[h_call.idx][s]
BitsWithin(w, lo, hi) == \A i \in BitIdx : w[i] = 1 => (lo <= i /\ i <= hi)
BitSum(T(_), i) == T(0)[i] + T(1)[i] + T(2)[i] + T(3)[i]

\* C14: in the two words written by a loader called with a valid index, the 4
\* address values are below 16 and lie in bits [slot*4, slot*4+3], the 4 data
\* values are below 2^16 and lie in bits [slot*16, slot*16+15]; at every bit
\* position at most one field has a bit, and the word written is the sum of
\* the 4 shifted fields.
C14_DisjointFields ==
    (ValidCall("A") \/ ValidCall("B")) =>
        /\ Len(trace) = h_call.first + 4
        /\ CallAcc(1).op = "W" /\ CallAcc(2).op = "W"
        /\ Cardinality(Slots) = 4
        /\ \A s \in Slots :
              /\ Field(CallAcc(1).val, s * 4, 4) < 16
              /\ CallElement(s) < 65536
              /\ BitsWithin(CallAddrTerm(s), s * 4, s * 4 + 3)
              /\ BitsWithin(CallDataTerm(s), s * 16, s * 16 + 15)
              /\ Field(CallDataTerm(s), s * 16, 16) = CallElement(s)
        /\ \A i \in BitIdx :
              /\ BitSum(CallAddrTerm, i) <= 1
              /\ BitSum(CallDataTerm, i) <= 1
              /\ CallAcc(1).val[i] = BitSum(CallAddrTerm, i)
              /\ CallAcc(2).val[i] = BitSum(CallDataTerm, i)

\* row 3 of the all-0xFFFF matrix was loaded: every data bit is set, the top address field is 15
C14_Witness ==
    /\ ValidCall("B")
    /\ h_call.idx = 3
    /\ h_matrix = MaxMatrix
    /\ regs[ADDR_B_DATA_OFFSET] = Ones64
    /\ Field(regs[ADDR_B_ADDR_OFFSET], 12, 4) = 15

----------------------------------------------------------------------------
(* Properties of the load sequence *)

\* the number of register accesses of one run of the load sequence
RunAccesses == LoadCalls * 4

\* C15: every run of the load sequence after the first makes the register
\* accesses of the first run, in the same order and with the same values,
\* whatever the operand registers held when it started; a loader called again
\* with the same matrix and index writes the same address word and data word.
C15_ReloadIdentical ==
    /\ Len(trace) = 4 * ncalls
    /\ \A i \in TraceIdx : i > RunAccesses => trace[i] = trace[i - RunAccesses]

\* a second run is complete, and it started from registers that had been overwritten
C15_Witness ==
    /\ ncalls = 2 * LoadCalls
    /\ Len(trace) = 64
    /\ h_matrix = matrix_A
    /\ trace[33].op = "W" /\ trace[33].val # Zero64
    /\ h_call.pre # InitRegs(Zero64)
    /\ \E i \in 1..Len(console) : console[i][1] = "Loading row of Matrix B into BRAM..."

----------------------------------------------------------------------------
(* The packed words of the sample matrices *)

SampleColumn0Loaded == h_call.fn = "A" /\ h_call.idx = 0 /\ h_matrix = matrix_A
NoBitsAbove16(w) == \A i \in 16..(WORD_BITS-1) : w[i] = 0

\* C16 as stated: for the sample matrix A and column_index 0 the address word
\* is 0 | (1<<4) | (2<<8) | (3<<12).
C16_AddrWordSample_Stated ==
    SampleColumn0Loaded =>
        /\ CallMade(ADDR_A_ADDR_OFFSET, ADDR_A_DATA_OFFSET)
        /\ Field(CallAcc(1).val, 0, 16) =
              BitOrNat(BitOrNat(BitOrNat(0, 1 * 2^4), 2 * 2^8), 3 * 2^12)
        /\ NoBitsAbove16(CallAcc(1).val)

\* C16: for the sample matrix A and column_index 0 the address word is
\* 0 | (4<<4) | (8<<8) | (12<<12) = 0xC840: slot r holds the composed address
\* r << 2, not the bank index r.
C16_AddrWordSample ==
    SampleColumn0Loaded =>
        /\ CallMade(ADDR_A_ADDR_OFFSET, ADDR_A_DATA_OFFSET)
        /\ Field(CallAcc(1).val, 0, 16) =
              BitOrNat(BitOrNat(BitOrNat(0, 4 * 2^4), 8 * 2^8), 12 * 2^12)
        /\ Field(CallAcc(1).val, 0, 16) = 51264
        /\ NoBitsAbove16(CallAcc(1).val)

\* column 0 of the sample matrix A was loaded: the data word starts with 1 and ends with 13
C16_Witness ==
    /\ SampleColumn0Loaded
    /\ ncalls = 1
    /\ Field(regs[ADDR_A_DATA_OFFSET], 0, 16) = 1
    /\ Field(regs[ADDR_A_DATA_OFFSET], 48, 16) = 13
    /\ Field(regs[ADDR_A_ADDR_OFFSET], 4, 4) = 4

\* the dot product of row i of the sample matrix A and column j of the sample matrix B
RECURSIVE SampleDot(_, _, _)
SampleDot(i, j, k) ==
    IF k = K THEN 0 ELSE matrix_A[i][k] * matrix_B[k][j] + SampleDot(i, j, k + 1)

\* C17: with the two sample matrices and a device that stores every loaded
\* element at its composed address and multiplies A by B, the value read from
\* the C-data register after the write of the linear index 0 is the dot
\* product of row 0 of A and column 0 of B, 80.
C17_FirstProduct ==
    /\ SampleDot(0, 0, 0) = 80
    /\ \A j \in TraceIdx :
          (IsRead(trace[j], ADDR_C_DATA_OFFSET) /\ trace[j-1].val = 0) => trace[j].val = 80
    /\ \A i \in 1..Len(console) :
          (console[i][1] = "C" /\ console[i][2] = 0 /\ console[i][3] = 0) => console[i][4] = 80

\* the run is over and C[0][0] = 80 was printed
C17_Witness ==
    /\ pc = "Done"
    /\ \E i \in 1..Len(console) : console[i] = <<"C", 0, 0, 80>>
    /\ IsRead(trace[Len(trace) - 30], ADDR_C_DATA_OFFSET) /\ trace[Len(trace) - 30].val = 80

----------------------------------------------------------------------------
(* Properties of main: the load phase *)

OperandWrites == SelectSeq(trace, LAMBDA e : e.op = "W" /\ e.reg \in Regs64)
\* the register of the i-th write of the load phase
LoadWriteReg(i) ==
    IF i <= 2 * K
    THEN (IF i % 2 = 1 THEN ADDR_A_ADDR_OFFSET ELSE ADDR_A_DATA_OFFSET)
    ELSE (IF i % 2 = 1 THEN ADDR_B_ADDR_OFFSET ELSE ADDR_B_DATA_OFFSET)

\* C18: the writes of the load phase are, in order, A-address and A-data for
\* column 0, 1, 2, 3, then B-address and B-data for row 0, 1, 2, 3: 16 writes
\* when the phase is over, the address word of a pair written right before its
\* data word, no B register written while A is loaded, no A register written
\* while B is loaded, and no other register written in the phase.
C18_LoadWriteOrder ==
    /\ \A i \in 1..Len(OperandWrites) :
          /\ OperandWrites[i].reg = LoadWriteReg(i)
          /\ i % 2 = 1 => IndexOfAddrWord(OperandWrites[i].val) = ((i - 1) \div 2) % K
    /\ \A j \in TraceIdx :
          /\ IsWrite(trace[j], ADDR_A_DATA_OFFSET) => (j > 1 /\ IsWrite(trace[j-1], ADDR_A_ADDR_OFFSET))
          /\ IsWrite(trace[j], ADDR_B_DATA_OFFSET) => (j > 1 /\ IsWrite(trace[j-1], ADDR_B_ADDR_OFFSET))
    /\ pc = "Idle" => Len(OperandWrites) = 0
    /\ pc = "LoadingA" => Len(OperandWrites) = 2 * col
    /\ pc = "LoadingB" => Len(OperandWrites) = 2 * K + 2 * row
    /\ pc \in {"Triggered", "Polling", "ReadingResults", "Done"} => Len(OperandWrites) = 16
    /\ pc \in {"Idle", "LoadingA", "LoadingB"} =>
          \A j \in TraceIdx : trace[j].op = "W" => trace[j].reg \in Regs64

\* the load phase is over: 16 operand writes, the last one the data word of row 3 of B
C18_Witness ==
    /\ pc = "Triggered"
    /\ Len(OperandWrites) = 16
    /\ OperandWrites[16].reg = ADDR_B_DATA_OFFSET
    /\ Field(OperandWrites[16].val, 0, 16) = 4

ErrorLines == {i \in 1..Len(console) : console[i][1] = "Error: Column index out of bounds for Matrix A."}
LoaderLines == {i \in 1..Len(console) :
                   console[i][1] \in {"Loading column of Matrix A into BRAM...",
                                      "Loading row of Matrix B into BRAM..."}}
FitsAddrBits(w) == Field(w, 0, 30) < 2^ADDR_BITS /\ \A i \in 30..(WORD_BITS-1) : w[i] = 0

\* C19: main calls the loaders with indices 0..3 only: the index of a call
\* about to be made and of every call made is in 0..3, every address the call
\* composes (bank and element in 0..3) fits in 4 bits, and the invalid-index
\* branch of the loaders is never taken.
C19_MainIndicesInRange ==
    /\ ErrorLines = {}
    /\ \A i \in LoaderLines : console[i][2] \in 0..(MATRIX_DIM-1)
    /\ (pc = "LoadingA" /\ MainLoopA(col)) =>
          /\ ToUint8(col) \in 0..(MATRIX_DIM-1)
          /\ ~A_index_invalid(ToUint8(col))
          /\ \A row_idx \in 0..(MATRIX_DIM-1) : FitsAddrBits(compose_bram_address(row_idx, ToUint8(col)))
    /\ (pc = "LoadingB" /\ MainLoopB(row)) =>
          /\ ToUint8(row) \in 0..(MATRIX_DIM-1)
          /\ ~B_index_invalid(ToUint8(row))
          /\ \A col_idx \in 0..(MATRIX_DIM-1) : FitsAddrBits(compose_bram_address(col_idx, ToUint8(row)))
    /\ Cardinality(LoaderLines) * 2 = Len(OperandWrites)
    /\ \A i \in 1..Len(OperandWrites) :
          i % 2 = 1 => \A s \in Slots :
              /\ Field(OperandWrites[i].val, s * ADDR_BITS, ELEMENT_INDEX_BITS) = ((i - 1) \div 2) % K
              /\ Field(OperandWrites[i].val, s * ADDR_BITS + ELEMENT_INDEX_BITS, 2) = s
              /\ NoBitsAbove16(OperandWrites[i].val)

\* both loops are over: 8 loader calls were made, the last with index 3, none took the error branch
C19_Witness ==
    /\ pc = "Triggered"
    /\ Cardinality(LoaderLines) = 8
    /\ \E i \in LoaderLines : console[i] = <<"Loading row of Matrix B into BRAM...", 3>>
    /\ col = 4 /\ row = 4

----------------------------------------------------------------------------
(* The address word as a function of the index *)

IsAddrWrite(e) == IsWrite(e, ADDR_A_ADDR_OFFSET) \/ IsWrite(e, ADDR_B_ADDR_OFFSET)

\* C20: the address word a loader writes for index k is 0xC840 + k*0x1111,
\* whatever the matrix and whichever the operand: the word written for column
\* k of A is the word written for row k of B.
C20_AddrWordByIndex ==
    /\ (ValidCall("A") \/ ValidCall("B")) =>
          /\ IsAddrWrite(CallAcc(1))
          /\ Field(CallAcc(1).val, 0, 16) = 51264 + h_call.idx * 4369
          /\ NoBitsAbove16(CallAcc(1).val)
    /\ \A i \in TraceIdx, j \in TraceIdx :
          (/\ IsWrite(trace[i], ADDR_A_ADDR_OFFSET)
           /\ IsWrite(trace[j], ADDR_B_ADDR_OFFSET)
           /\ IndexOfAddrWord(trace[i].val) = IndexOfAddrWord(trace[j].val))
          => trace[i].val = trace[j].val

\* column 2 of A and row 2 of B of the coded matrix were loaded: both address words are 0xEA62
C20_Witness ==
    /\ ncalls = 2
    /\ h_matrix = CodedMatrix
    /\ Field(regs[ADDR_A_ADDR_OFFSET], 0, 16) = 60002
    /\ Field(regs[ADDR_B_ADDR_OFFSET], 0, 16) = 60002
    /\ regs[ADDR_A_DATA_OFFSET] # regs[ADDR_B_DATA_OFFSET]

====
